---- MODULE Spec2Model ----
(***************************************************************************)
(* Model of algorithm.py: a market-making trade loop that quotes options   *)
(* around a theoretical price against an exchange.                          *)
(*                                                                          *)
(* Prices are integers in units of 0.05 (half a tick of 0.10), so that the  *)
(* hard-coded tick size 0.10 is 2, the hard-coded credit 0.15 is 3 and the   *)
(* midpoint of two on-tick prices is a whole number of units.               *)
(***************************************************************************)
EXTENDS Integers, Sequences, FiniteSets

VARIABLES
    pc,          \* position of the script: "loop" | "quote" | "hedge" | "crashed"
    idx,         \* index in OPTIONS of the option the for-loop is at
    iter,        \* number of trade-loop iterations entered
    stock_value, \* local of the trade loop: <<>> (None) or <<midpoint>>
    OPTIONS,     \* the instrument list
    book,        \* the stock's order book as last returned by the exchange
    orders,      \* exchange: outstanding orders of this account, per option
    position,    \* exchange: signed position per instrument
    trades,      \* exchange: trades not yet polled, per option
    nextId,      \* exchange: next order id handed out
    fills,       \* number of fills the exchange has made
    calls,       \* exchange calls issued by the script in the current iteration
    invoked,     \* script functions invoked in the current iteration
    unit         \* last direct call of a function with its arguments and result

vars == <<pc, idx, iter, stock_value, OPTIONS, book, orders, position, trades,
          nextId, fills, calls, invoked, unit>>

----------------------------------------------------------------------------
(* Bounds of the model *)

MaxCycles == 2
MaxFills == 1
MaxPrice == 6
MaxTick == 3
MaxCredit == 2
MaxRoom == 4

(* Constants of the program *)

\* update_quotes(credit=0.15, volume=3, position_limit=100, tick_size=0.10)
CREDIT == 3
VOLUME == 3
POSITION_LIMIT == 100
TICK_SIZE == 2

STOCK_ID == "BMW"

None == << >>
Some(v) == <<v>>

OptionIds == <<"BMW-2021_12_10-075C", "BMW-2021_12_10-075P",
               "BMW-2022_01_14-075C", "BMW-2022_01_14-075P">>

\* The instrument list of the script.
OPTIONS_LIST ==
    [i \in 1..4 |->
        [id |-> OptionIds[i], strike |-> 75,
         callput |-> IF i % 2 = 1 THEN "call" ELSE "put"]]

\* Instrument lists the loop is run with: the script's own, and the script's
\* with one entry's kind replaced by a string that is neither 'call' nor 'put'.
OptionLists ==
    {OPTIONS_LIST} \cup
    {[OPTIONS_LIST EXCEPT ![j].callput = "straddle"] : j \in 1..4}

OptionIdSet == {OptionIds[i] : i \in 1..4}
Instruments == OptionIdSet \cup {STOCK_ID}

----------------------------------------------------------------------------
(* Helpers *)

Min(a, b) == IF a <= b THEN a ELSE b

\* Total volume of a set of orders.
RECURSIVE SumVolume(_)
SumVolume(S) ==
    IF S = {} THEN 0
    ELSE LET o == CHOOSE x \in S : TRUE IN o.volume + SumVolume(S \ {o})

\* The ids of a set of orders in ascending order.
RECURSIVE Ascending(_)
Ascending(S) ==
    IF S = {} THEN << >>
    ELSE LET m == CHOOSE x \in S : \A y \in S : x <= y IN <<m>> \o Ascending(S \ {m})

\* Python's math.floor and math.ceil of the quotient a / b, for b > 0.
floor_div(a, b) == a \div b
ceil_div(a, b) == -((-a) \div b)

\* One exchange call, as logged.
Call(op, inst, id, side, price, volume, ids) ==
    [op |-> op, inst |-> inst, id |-> id, side |-> side, price |-> price,
     volume |-> volume, ids |-> ids]

----------------------------------------------------------------------------
(* Tick rounding *)

\* Mutant: int() truncates toward zero where floor rounds down.
round_down_to_tick_truncates(price, tick_size) ==
    (IF price >= 0 THEN price \div tick_size ELSE -((-price) \div tick_size)) * tick_size

round_down_to_tick(price, tick_size) == floor_div(price, tick_size) * tick_size

\* Mutant: the number of ticks is not scaled back to a price.
round_up_to_tick_unscaled(price, tick_size) == ceil_div(price, tick_size)

round_up_to_tick(price, tick_size) == ceil_div(price, tick_size) * tick_size

----------------------------------------------------------------------------
(* Market data *)

\* An order book as exchange.get_last_price_book returns it: present is FALSE
\* for a falsy result (no book); levels are [price, volume], best level first.
NoBook == [present |-> FALSE, bids |-> << >>, asks |-> << >>]
Book(bids, asks) == [present |-> TRUE, bids |-> bids, asks |-> asks]
Level(p, v) == [price |-> p, volume |-> v]

\* Mutant: 0 instead of None when there is no midpoint.
get_midpoint_value_zero_sentinel(order_book) ==
    IF ~(order_book.present /\ order_book.bids # << >> /\ order_book.asks # << >>)
    THEN Some(0)
    ELSE Some((order_book.bids[1].price + order_book.asks[1].price) \div 2)

\* Mutant: the sum of the best prices is not halved.
get_midpoint_value_unhalved(order_book) ==
    IF ~(order_book.present /\ order_book.bids # << >> /\ order_book.asks # << >>)
    THEN None
    ELSE Some(order_book.bids[1].price + order_book.asks[1].price)

\* Book prices are on tick (even numbers of units), so halving their sum is exact.
get_midpoint_value(order_book) ==
    IF ~(order_book.present /\ order_book.bids # << >> /\ order_book.asks # << >>)
    THEN None
    ELSE Some((order_book.bids[1].price + order_book.asks[1].price) \div 2)

----------------------------------------------------------------------------
(* Theoretical pricing *)

Raised == [raised |-> TRUE, value |-> 0]
Returned(v) == [raised |-> FALSE, value |-> v]

\* Mutant: any kind other than 'call' is priced as a put.
calculate_theoretical_option_value_defaults_to_put(callput, call_val, put_val) ==
    IF callput = "call" THEN Returned(call_val) ELSE Returned(put_val)

\* call_val and put_val are what the pricing library's call_value and
\* put_value return for the arguments passed.
calculate_theoretical_option_value(callput, call_val, put_val) ==
    IF callput = "call" THEN Returned(call_val)
    ELSE IF callput = "put" THEN Returned(put_val)
    ELSE Raised

----------------------------------------------------------------------------
(* The exchange as the script's calls see it *)

Exchange ==
    [orders |-> orders, position |-> position, trades |-> trades,
     nextId |-> nextId, calls |-> calls]

Order(id, side, price, volume) ==
    [id |-> id, side |-> side, price |-> price, volume |-> volume]

OrderIds(S) == {o.id : o \in S}

poll_new_trades(ex, instrument_id) ==
    [ex EXCEPT !.trades[instrument_id] = << >>,
               !.calls = Append(@, Call("poll_new_trades", instrument_id, 0, "-", 0, 0, {}))]

get_outstanding_orders(ex, instrument_id) ==
    [ex EXCEPT !.calls = Append(@, Call("get_outstanding_orders", instrument_id, 0, "-", 0, 0,
                                        OrderIds(ex.orders[instrument_id])))]

delete_order(ex, instrument_id, order_id) ==
    [ex EXCEPT !.orders[instrument_id] = {o \in @ : o.id # order_id},
               !.calls = Append(@, Call("delete_order", instrument_id, order_id, "-", 0, 0, {}))]

get_positions(ex, instrument_id) ==
    [ex EXCEPT !.calls = Append(@, Call("get_positions", instrument_id, 0, "-", 0, 0, {}))]

insert_order(ex, instrument_id, price, volume, side) ==
    [ex EXCEPT !.orders[instrument_id] = @ \cup {Order(ex.nextId, side, price, volume)},
               !.nextId = @ + 1,
               !.calls = Append(@, Call("insert_order", instrument_id, ex.nextId, side,
                                        price, volume, {}))]

----------------------------------------------------------------------------
(* update_quotes *)

\* Lines 109-112: print any new trades.
print_new_trades(ex, option_id) == poll_new_trades(ex, option_id)

RECURSIVE delete_each(_, _, _)
delete_each(ex, option_id, order_ids) ==
    IF order_ids = << >> THEN ex
    ELSE delete_each(delete_order(ex, option_id, Head(order_ids)), option_id, Tail(order_ids))

\* The order in which orders.items() yields the orders of the returned dict:
\* the order of insertion on the exchange, which is that of the order ids.
dict_items(ex, option_id) == Ascending(OrderIds(ex.orders[option_id]))

\* Mutant: the outstanding orders are listed but not deleted.
pull_orders_lists_only(ex, option_id) == get_outstanding_orders(ex, option_id)

\* Lines 114-118: pull all existing outstanding orders.
pull_orders(ex, option_id) ==
    delete_each(get_outstanding_orders(ex, option_id), option_id, dict_items(ex, option_id))

\* Lines 120-122.
bid_price(theoretical_price, credit, tick_size) ==
    round_down_to_tick(theoretical_price - credit, tick_size)

ask_price(theoretical_price, credit, tick_size) ==
    round_up_to_tick(theoretical_price + credit, tick_size)

\* Mutant: the room to buy ignores the position.
max_volume_to_buy_ignores_position(position_limit, pos) == position_limit

\* Mutant: the room to sell is computed like the room to buy.
max_volume_to_sell_like_buy(position_limit, pos) == position_limit - pos

\* Lines 127-131.
max_volume_to_buy(position_limit, pos) == position_limit - pos

max_volume_to_sell(position_limit, pos) == position_limit + pos

bid_volume(volume, position_limit, pos) == Min(volume, max_volume_to_buy(position_limit, pos))

ask_volume(volume, position_limit, pos) == Min(volume, max_volume_to_sell(position_limit, pos))

\* Lines 133-142.
insert_bid(ex, option_id, price, volume) ==
    IF volume > 0 THEN insert_order(ex, option_id, price, volume, "bid") ELSE ex

\* Lines 143-151.
insert_ask(ex, option_id, price, volume) ==
    IF volume > 0 THEN insert_order(ex, option_id, price, volume, "ask") ELSE ex

\* Lines 120-151: price, size against the position read, and insert.
insert_quotes(ex, option_id, theoretical_price, credit, volume, position_limit, tick_size) ==
    LET read == get_positions(ex, option_id)
        pos  == read.position[option_id]
    IN  insert_ask(
            insert_bid(read, option_id,
                       bid_price(theoretical_price, credit, tick_size),
                       bid_volume(volume, position_limit, pos)),
            option_id,
            ask_price(theoretical_price, credit, tick_size),
            ask_volume(volume, position_limit, pos))

\* Mutant: the new quotes are inserted before the old orders are pulled.
update_quotes_insert_first(ex, option_id, theoretical_price, credit, volume, position_limit, tick_size) ==
    pull_orders(insert_quotes(print_new_trades(ex, option_id), option_id, theoretical_price,
                              credit, volume, position_limit, tick_size),
                option_id)

update_quotes(ex, option_id, theoretical_price, credit, volume, position_limit, tick_size) ==
    insert_quotes(pull_orders(print_new_trades(ex, option_id), option_id),
                  option_id, theoretical_price, credit, volume, position_limit, tick_size)

\* Lines 169-180: reads the positions and prints; the hedge is not implemented.
hedge_delta_position(ex, stock_id) == get_positions(ex, stock_id)

----------------------------------------------------------------------------
(* Inputs of the model *)

\* Values the pricing library returns (0.50, 0.65): with the credit of 0.15
\* the first gives off-tick quote prices, the second on-tick ones.
TheoValues == {10, 13}

\* Order books of the stock the exchange reports.
StockBooks ==
    { NoBook,
      Book(<< >>, << >>),
      Book(<<Level(1498, 5)>>, << >>),
      Book(<<Level(1498, 5), Level(1496, 2)>>, <<Level(1502, 4), Level(1506, 1)>>) }

\* Positions the account starts with.
InitPositions ==
    { [i \in Instruments |-> 0],
      [i \in Instruments |->
          IF i = OptionIds[1] THEN POSITION_LIMIT - 2
          ELSE IF i = OptionIds[2] THEN POSITION_LIMIT
          ELSE IF i = OptionIds[3] THEN -POSITION_LIMIT
          ELSE IF i = OptionIds[4] THEN 1 - POSITION_LIMIT
          ELSE 0] }

NoUnit == [fn |-> "none"]

----------------------------------------------------------------------------
(* The trade loop *)

Init ==
    /\ pc = "loop"
    /\ idx = 1
    /\ iter = 0
    /\ stock_value = None
    /\ OPTIONS \in OptionLists
    /\ book = NoBook
    /\ orders = [o \in OptionIdSet |-> {}]
    /\ position \in InitPositions
    /\ trades = [o \in OptionIdSet |-> << >>]
    /\ nextId = 1
    /\ fills = 0
    /\ calls = << >>
    /\ invoked = << >>
    /\ unit = NoUnit

Invocation(fn, arg) == [fn |-> fn, arg |-> arg]

BookCall == Call("get_last_price_book", STOCK_ID, 0, "-", 0, 0, {})

\* Lines 192-202 with the midpoint unavailable: sleep and continue.
\* order_book is what exchange.get_last_price_book returns at this call.
SkipCycle ==
    /\ pc = "loop"
    /\ iter < MaxCycles
    /\ \E order_book \in StockBooks :
         /\ get_midpoint_value(order_book) = None
         /\ book' = order_book
         /\ stock_value' = get_midpoint_value(order_book)
    /\ iter' = iter + 1
    /\ calls' = <<BookCall>>
    /\ invoked' = <<Invocation("get_midpoint_value", STOCK_ID)>>
    /\ pc' = "loop"
    /\ UNCHANGED <<idx, OPTIONS, orders, position, trades, nextId, fills, unit>>

\* Lines 192-204 with a midpoint: enter the for-loop over OPTIONS.
BeginCycle ==
    /\ pc = "loop"
    /\ iter < MaxCycles
    /\ \E order_book \in StockBooks :
         /\ get_midpoint_value(order_book) # None
         /\ book' = order_book
         /\ stock_value' = get_midpoint_value(order_book)
    /\ iter' = iter + 1
    /\ calls' = <<BookCall>>
    /\ invoked' = <<Invocation("get_midpoint_value", STOCK_ID)>>
    /\ idx' = 1
    /\ pc' = "quote"
    /\ UNCHANGED <<OPTIONS, orders, position, trades, nextId, fills, unit>>

\* Mutant: the for-loop leaves out the last option.
for_loop_next_skips_last(i) ==
    IF i < Len(OPTIONS) - 1 THEN [pc |-> "quote", idx |-> i + 1] ELSE [pc |-> "hedge", idx |-> i]

\* Line 204: where the for-loop over OPTIONS goes after the body for OPTIONS[i].
for_loop_next(i) ==
    IF i < Len(OPTIONS) THEN [pc |-> "quote", idx |-> i + 1] ELSE [pc |-> "hedge", idx |-> i]

\* Lines 204-226 for OPTIONS[idx] when calculate_theoretical_option_value returns.
QuoteOption ==
    /\ pc = "quote"
    /\ \E call_val \in TheoValues, put_val \in TheoValues :
         LET option == OPTIONS[idx]
             theoretical_value ==
                 calculate_theoretical_option_value(option.callput, call_val, put_val)
         IN  /\ ~theoretical_value.raised
             /\ LET ex == update_quotes(Exchange, option.id, theoretical_value.value,
                                        CREDIT, VOLUME, POSITION_LIMIT, TICK_SIZE)
                IN  /\ orders' = ex.orders
                    /\ trades' = ex.trades
                    /\ nextId' = ex.nextId
                    /\ calls' = ex.calls
                    /\ position' = ex.position
             /\ invoked' = invoked \o
                    <<Invocation("calculate_theoretical_option_value", option.id),
                      Invocation("update_quotes", option.id)>>
    /\ idx' = for_loop_next(idx).idx
    /\ pc' = for_loop_next(idx).pc
    /\ UNCHANGED <<iter, stock_value, OPTIONS, book, fills, unit>>

\* Lines 207-212 for OPTIONS[idx] when calculate_theoretical_option_value
\* raises: nothing catches it and the script ends.
RaiseInvalidKind ==
    /\ pc = "quote"
    /\ \E call_val \in TheoValues, put_val \in TheoValues :
         calculate_theoretical_option_value(OPTIONS[idx].callput, call_val, put_val).raised
    /\ invoked' = Append(invoked,
                         Invocation("calculate_theoretical_option_value", OPTIONS[idx].id))
    /\ pc' = "crashed"
    /\ UNCHANGED <<idx, iter, stock_value, OPTIONS, book, orders, position, trades,
                   nextId, fills, calls, unit>>

\* Lines 228-232: the hedger, then the sleep before the next iteration.
Hedge ==
    /\ pc = "hedge"
    /\ calls' = hedge_delta_position(Exchange, STOCK_ID).calls
    /\ invoked' = Append(invoked, Invocation("hedge_delta_position", STOCK_ID))
    /\ pc' = "loop"
    /\ UNCHANGED <<idx, iter, stock_value, OPTIONS, book, orders, position, trades,
                   nextId, fills, unit>>

----------------------------------------------------------------------------
(* The exchange between iterations of the script *)

\* k lots of a resting order trade while the script sleeps (or after it ended).
Fill ==
    /\ pc \in {"loop", "crashed"}
    /\ fills < MaxFills
    /\ \E o \in OptionIdSet : \E ord \in orders[o] : \E k \in 1..ord.volume :
         /\ orders' = [orders EXCEPT ![o] =
                (@ \ {ord}) \cup
                (IF k < ord.volume THEN {[ord EXCEPT !.volume = @ - k]} ELSE {})]
         /\ position' = [position EXCEPT ![o] = IF ord.side = "bid" THEN @ + k ELSE @ - k]
         /\ trades' = [trades EXCEPT ![o] =
                Append(@, [volume |-> k, price |-> ord.price, side |-> ord.side])]
    /\ fills' = fills + 1
    /\ UNCHANGED <<pc, idx, iter, stock_value, OPTIONS, book, nextId, calls, invoked, unit>>

Next ==
    \/ SkipCycle
    \/ BeginCycle
    \/ QuoteOption
    \/ RaiseInvalidKind
    \/ Hedge
    \/ Fill

Spec == Init /\ [][Next]_vars

----------------------------------------------------------------------------
(* The functions called directly, one call per behaviour, with arguments    *)
(* drawn from bounded sets and a fresh exchange.                            *)

UnitOption == OptionIds[1]

UnitPrices == -MaxPrice..MaxPrice
UnitTicks == 1..MaxTick
UnitTheos == 0..MaxPrice
UnitCredits == -MaxCredit..MaxCredit
UnitLimits == 0..MaxRoom \cup {POSITION_LIMIT}
UnitVolumes == -1..MaxRoom
UnitPositions ==
    (-(MaxRoom + 1))..(MaxRoom + 1)
    \cup {-POSITION_LIMIT - 1, -POSITION_LIMIT, 2 - POSITION_LIMIT,
          POSITION_LIMIT - 2, POSITION_LIMIT, POSITION_LIMIT + 1}

\* On-tick book prices, and the sides of a book: at most two levels, best first
\* (bids descending, asks ascending).
BookPrices == {TICK_SIZE * k : k \in 1..MaxPrice}
BidSides ==
    {<< >>} \cup {<<Level(p, 1)>> : p \in BookPrices}
    \cup {<<Level(x[1], 1), Level(x[2], 1)>> : x \in {y \in BookPrices \X BookPrices : y[2] < y[1]}}
AskSides ==
    {<< >>} \cup {<<Level(p, 1)>> : p \in BookPrices}
    \cup {<<Level(x[1], 1), Level(x[2], 1)>> : x \in {y \in BookPrices \X BookPrices : y[2] > y[1]}}
UnitBooks == {NoBook} \cup {Book(b, a) : b \in BidSides, a \in AskSides}

FreshExchange(pos) ==
    [orders |-> [o \in OptionIdSet |-> {}],
     position |-> [i \in Instruments |-> IF i = UnitOption THEN pos ELSE 0],
     trades |-> [o \in OptionIdSet |-> << >>],
     nextId |-> 1,
     calls |-> << >>]

InitUnit ==
    /\ pc = "unit"
    /\ idx = 1
    /\ iter = 0
    /\ stock_value = None
    /\ OPTIONS = OPTIONS_LIST
    /\ book = NoBook
    /\ orders = FreshExchange(0).orders
    /\ position = FreshExchange(0).position
    /\ trades = FreshExchange(0).trades
    /\ nextId = 1
    /\ fills = 0
    /\ calls = << >>
    /\ invoked = << >>
    /\ unit = NoUnit

CallRoundToTick ==
    /\ pc = "unit"
    /\ \E price \in UnitPrices, tick_size \in UnitTicks :
         unit' = [fn |-> "round_to_tick", price |-> price, tick_size |-> tick_size,
                  down |-> round_down_to_tick(price, tick_size),
                  up |-> round_up_to_tick(price, tick_size)]
    /\ pc' = "returned"
    /\ UNCHANGED <<idx, iter, stock_value, OPTIONS, book, orders, position, trades,
                   nextId, fills, calls, invoked>>

CallGetMidpointValue ==
    /\ pc = "unit"
    /\ \E order_book \in UnitBooks :
         /\ book' = order_book
         /\ unit' = [fn |-> "get_midpoint_value", result |-> get_midpoint_value(order_book)]
    /\ calls' = <<BookCall>>
    /\ pc' = "returned"
    /\ UNCHANGED <<idx, iter, stock_value, OPTIONS, orders, position, trades,
                   nextId, fills, invoked>>

CallUpdateQuotes ==
    /\ pc = "unit"
    /\ \E pos \in UnitPositions, position_limit \in UnitLimits, volume \in UnitVolumes,
          theoretical_price \in UnitTheos, credit \in UnitCredits, tick_size \in UnitTicks :
         LET ex == update_quotes(FreshExchange(pos), UnitOption, theoretical_price, credit,
                                 volume, position_limit, tick_size)
         IN  /\ orders' = ex.orders
             /\ trades' = ex.trades
             /\ nextId' = ex.nextId
             /\ calls' = ex.calls
             /\ position' = ex.position
             /\ unit' = [fn |-> "update_quotes", theoretical_price |-> theoretical_price,
                         credit |-> credit, volume |-> volume,
                         position_limit |-> position_limit, tick_size |-> tick_size,
                         bid_price |-> bid_price(theoretical_price, credit, tick_size),
                         ask_price |-> ask_price(theoretical_price, credit, tick_size)]
    /\ invoked' = <<Invocation("update_quotes", UnitOption)>>
    /\ pc' = "returned"
    /\ UNCHANGED <<idx, iter, stock_value, OPTIONS, book, fills>>

NextUnit ==
    \/ CallRoundToTick
    \/ CallGetMidpointValue
    \/ CallUpdateQuotes

SpecUnit == InitUnit /\ [][NextUnit]_vars

----------------------------------------------------------------------------
(* Properties *)

Bids(o) == {x \in orders[o] : x.side = "bid"}
Asks(o) == {x \in orders[o] : x.side = "ask"}

IsOp(c, op, o) == c.op = op /\ c.inst = o

\* The invocation of update_quotes for option o has just returned: it is the
\* last function the script invoked and no fill has happened since.
JustQuoted(o) ==
    /\ pc \in {"quote", "hedge"}
    /\ invoked # << >>
    /\ invoked[Len(invoked)] = Invocation("update_quotes", o)

\* C1: position limit safety. With fills happening only between iterations
\* and positions starting within the limit, every option's position stays
\* within [-position_limit, position_limit] in every reachable state, and
\* position + outstanding bid volume <= position_limit and
\* position - outstanding ask volume >= -position_limit.
C1_PositionLimitSafety ==
    \A o \in OptionIdSet :
        /\ position[o] <= POSITION_LIMIT
        /\ position[o] >= -POSITION_LIMIT
        /\ position[o] + SumVolume(Bids(o)) <= POSITION_LIMIT
        /\ position[o] - SumVolume(Asks(o)) >= -POSITION_LIMIT

\* A position that a fill of a quote has moved to the limit, reached after the
\* option was quoted with less than the target volume of room to buy.
C1_Witness ==
    /\ fills > 0
    /\ iter = 2
    /\ \E o \in OptionIdSet :
         /\ position[o] = POSITION_LIMIT
         /\ JustQuoted(o)
         /\ Bids(o) = {}
         /\ Asks(o) # {}

\* C2: cancellation before insertion. Within one update_quotes invocation (the
\* calls of one iteration that name the option), no delete_order call follows
\* an insert_order call, and before the first insert_order call a delete_order
\* call has been issued for every order get_outstanding_orders returned.
C2_CancelBeforeInsert ==
    \A o \in OptionIdSet : \A b \in DOMAIN calls :
        IsOp(calls[b], "insert_order", o) =>
            /\ \A d \in DOMAIN calls : IsOp(calls[d], "delete_order", o) => d < b
            /\ \E g \in 1..(b - 1) :
                 /\ IsOp(calls[g], "get_outstanding_orders", o)
                 /\ \A id \in calls[g].ids :
                      \E d \in (g + 1)..(b - 1) :
                          IsOp(calls[d], "delete_order", o) /\ calls[d].id = id

\* An invocation that deleted two resting orders and then inserted.
C2_Witness ==
    \E o \in OptionIdSet : \E g, b \in DOMAIN calls :
        /\ IsOp(calls[g], "get_outstanding_orders", o)
        /\ Cardinality(calls[g].ids) = 2
        /\ IsOp(calls[b], "insert_order", o)
        /\ g < b

\* C10: bounded outstanding quotes. An option never has more than one
\* outstanding bid and one outstanding ask, each of at most the target volume,
\* and right after update_quotes returns every outstanding order of the option
\* was inserted by that call.
C10_BoundedOutstanding ==
    \A o \in OptionIdSet :
        /\ Cardinality(Bids(o)) <= 1
        /\ Cardinality(Asks(o)) <= 1
        /\ \A x \in orders[o] : x.volume <= VOLUME
        /\ JustQuoted(o) =>
             \A x \in orders[o] :
                 \E b \in DOMAIN calls : IsOp(calls[b], "insert_order", o) /\ calls[b].id = x.id

\* The second quote of an option whose first quotes were still resting.
C10_Witness ==
    \E o \in OptionIdSet : \E g \in DOMAIN calls :
        /\ JustQuoted(o)
        /\ iter = 2
        /\ IsOp(calls[g], "get_outstanding_orders", o)
        /\ Cardinality(calls[g].ids) = 2
        /\ Cardinality(orders[o]) = 2

HasMidpoint(b) == b.present /\ b.bids # << >> /\ b.asks # << >>

InvalidKind(i) == OPTIONS[i].callput \notin {"call", "put"}

\* The update_quotes and hedge_delta_position invocations of the iteration.
QuoteAndHedge ==
    SelectSeq(invoked, LAMBDA v : v.fn \in {"update_quotes", "hedge_delta_position"})

QuotesUpTo(n) == [j \in 1..n |-> Invocation("update_quotes", OPTIONS[j].id)]

\* C6: an iteration in which the stock's book has no midpoint (no book, or a
\* side empty) polls no trades, cancels and inserts no order, does not invoke
\* the hedger, leaves the outstanding orders as they were and ends at the head
\* of the loop.
C6_SkipCycleIsNoOp ==
    [][ (iter' = iter + 1 /\ ~HasMidpoint(book')) =>
            /\ orders' = orders
            /\ trades' = trades
            /\ position' = position
            /\ nextId' = nextId
            /\ calls' = <<BookCall>>
            /\ QuoteAndHedge' = << >>
            /\ pc' = "loop" ]_vars

\* A skipped iteration that followed an active one, with quotes resting.
C6_Witness ==
    /\ pc = "loop"
    /\ iter = 2
    /\ book.present /\ book.bids # << >> /\ book.asks = << >>
    /\ calls = <<BookCall>>
    /\ \E o \in OptionIdSet : Cardinality(orders[o]) = 2

\* C8: when OPTIONS[i] has a kind that is neither 'call' nor 'put', the
\* iteration ends the script at that option: nothing of option i or a later
\* option is cancelled or inserted, update_quotes is not invoked for them,
\* the hedger is not invoked, the options before i have been quoted, and the
\* script makes no further call.
C8_InvalidKindAborts ==
    /\ [](pc = "crashed" =>
            /\ InvalidKind(idx)
            /\ QuoteAndHedge = QuotesUpTo(idx - 1)
            /\ \A j \in idx..Len(OPTIONS) : \A c \in DOMAIN calls :
                 ~(calls[c].inst = OPTIONS[j].id /\ calls[c].op \in {"delete_order", "insert_order"})
            /\ \A j \in 1..(idx - 1) : \E c \in DOMAIN calls :
                 IsOp(calls[c], "get_positions", OPTIONS[j].id))
    /\ [][ (pc = "quote" /\ InvalidKind(idx)) =>
               (pc' = "crashed" /\ orders' = orders /\ nextId' = nextId /\ calls' = calls) ]_vars
    /\ [][ pc = "crashed" =>
               (pc' = "crashed" /\ calls' = calls /\ invoked' = invoked /\ iter' = iter) ]_vars

\* The script ended at the third option, the first two re-quoted.
C8_Witness ==
    /\ pc = "crashed"
    /\ idx = 3
    /\ Cardinality(orders[OPTIONS[1].id]) = 2
    /\ \E c \in DOMAIN calls : IsOp(calls[c], "insert_order", OPTIONS[2].id)
    /\ orders[OPTIONS[3].id] = {}

\* C9: in an iteration with a midpoint and no error, update_quotes is invoked
\* once per option of OPTIONS in list order and hedge_delta_position once,
\* after the last option; the script ends only by an error, and at the head
\* of the loop another iteration can start.
C9_ActiveCycleOrder ==
    /\ pc = "quote" => QuoteAndHedge = QuotesUpTo(idx - 1)
    /\ pc = "hedge" => QuoteAndHedge = QuotesUpTo(Len(OPTIONS))
    /\ (pc = "loop" /\ iter > 0 /\ stock_value # None) =>
           QuoteAndHedge = Append(QuotesUpTo(Len(OPTIONS)),
                                  Invocation("hedge_delta_position", STOCK_ID))
    /\ pc = "crashed" => \E i \in 1..Len(OPTIONS) : InvalidKind(i)
    /\ pc \in {"loop", "quote", "hedge", "crashed"}
    /\ (pc = "loop" /\ iter < MaxCycles) => ENABLED (SkipCycle \/ BeginCycle)

\* The end of a second active iteration.
C9_Witness ==
    /\ pc = "loop"
    /\ iter = 2
    /\ stock_value # None
    /\ Len(QuoteAndHedge) = Len(OPTIONS) + 1
    /\ \A o \in OptionIdSet : orders[o] # {}

----------------------------------------------------------------------------
(* Properties of the functions called directly *)

Volumes(S) == {x.volume : x \in S}

\* The volume update_quotes is to submit on a side with the given room.
Clamped(volume, room) == IF volume <= room THEN volume ELSE room

InsertCalls == SelectSeq(calls, LAMBDA c : c.op = "insert_order")

\* C3: order sizing. update_quotes submits one bid of volume
\* min(volume, position_limit - position) exactly when that is > 0 and one ask
\* of volume min(volume, position_limit + position) exactly when that is > 0,
\* and nothing else; limit 100, position 98, volume 3 gives bid 2 and ask 3,
\* position 100 gives no bid and ask 3.
C3_OrderSizing ==
    unit.fn = "update_quotes" =>
        LET pos == position[UnitOption]
            bid == Clamped(unit.volume, unit.position_limit - pos)
            ask == Clamped(unit.volume, unit.position_limit + pos)
        IN  /\ Cardinality(Bids(UnitOption)) <= 1
            /\ Cardinality(Asks(UnitOption)) <= 1
            /\ Volumes(Bids(UnitOption)) = (IF bid > 0 THEN {bid} ELSE {})
            /\ Volumes(Asks(UnitOption)) = (IF ask > 0 THEN {ask} ELSE {})
            /\ Len(InsertCalls) = Cardinality(orders[UnitOption])
            /\ (unit.position_limit = 100 /\ unit.volume = 3 /\ pos = 98) =>
                   (Volumes(Bids(UnitOption)) = {2} /\ Volumes(Asks(UnitOption)) = {3})
            /\ (unit.position_limit = 100 /\ unit.volume = 3 /\ pos = 100) =>
                   (Bids(UnitOption) = {} /\ Volumes(Asks(UnitOption)) = {3})

\* The spec's example: limit 100, position 98, volume 3.
C3_Witness ==
    /\ unit.fn = "update_quotes"
    /\ unit.position_limit = 100
    /\ unit.volume = 3
    /\ position[UnitOption] = 98
    /\ Volumes(Bids(UnitOption)) = {2}
    /\ Volumes(Asks(UnitOption)) = {3}

\* C4 as stated: for every theoretical price, tick size > 0 and credit, the
\* bid price update_quotes computes is <= the ask price it computes.
C4_BidLeqAskAnyCredit ==
    unit.fn = "update_quotes" => unit.bid_price <= unit.ask_price

\* C4 amended: for every theoretical price, tick size > 0 and credit >= 0, the
\* bid price update_quotes computes is <= the ask price it computes, and so
\* are the prices of the orders it submits.
C4_BidLeqAskNonNegativeCredit ==
    (unit.fn = "update_quotes" /\ unit.credit >= 0) =>
        /\ unit.bid_price <= unit.ask_price
        /\ \A b \in Bids(UnitOption) : \A a \in Asks(UnitOption) : b.price <= a.price

\* A zero credit on an off-tick price, both quotes submitted.
C4_Witness ==
    /\ unit.fn = "update_quotes"
    /\ unit.credit = 0
    /\ unit.tick_size = 3
    /\ unit.bid_price < unit.theoretical_price
    /\ unit.theoretical_price < unit.ask_price
    /\ \E b \in Bids(UnitOption) : b.price = unit.bid_price
    /\ \E a \in Asks(UnitOption) : a.price = unit.ask_price

\* C5: tick rounding. round_down_to_tick(price, tick) is a multiple of tick
\* with result <= price < result + tick, and round_up_to_tick(price, tick) is
\* a multiple of tick with result - tick < price <= result.
C5_TickRounding ==
    unit.fn = "round_to_tick" =>
        /\ unit.down % unit.tick_size = 0
        /\ unit.down <= unit.price
        /\ unit.price < unit.down + unit.tick_size
        /\ unit.up % unit.tick_size = 0
        /\ unit.up - unit.tick_size < unit.price
        /\ unit.price <= unit.up

\* A negative off-tick price.
C5_Witness ==
    /\ unit.fn = "round_to_tick"
    /\ unit.price < 0
    /\ unit.tick_size > 1
    /\ unit.down < unit.price
    /\ unit.price < unit.up

BestBid(b) ==
    CHOOSE p \in {b.bids[k].price : k \in DOMAIN b.bids} :
        \A k \in DOMAIN b.bids : b.bids[k].price <= p

BestAsk(b) ==
    CHOOSE p \in {b.asks[k].price : k \in DOMAIN b.asks} :
        \A k \in DOMAIN b.asks : b.asks[k].price >= p

\* C7: midpoint. get_midpoint_value returns (best_bid + best_ask) / 2 of the
\* top of the book when the book has a bid level and an ask level, and None
\* when the book is absent or a side is empty.
C7_Midpoint ==
    unit.fn = "get_midpoint_value" =>
        IF HasMidpoint(book)
        THEN /\ Len(unit.result) = 1
             /\ 2 * unit.result[1] = BestBid(book) + BestAsk(book)
        ELSE unit.result = None

\* A book with two levels on each side.
C7_Witness ==
    /\ unit.fn = "get_midpoint_value"
    /\ book.present
    /\ Len(book.bids) = 2
    /\ Len(book.asks) = 2
    /\ unit.result # None

====
